---- MODULE Spec2Model ----
(***************************************************************************)
(* State-machine models of the coursework applications of the repository:  *)
(*   quiz.py           the timed maths quiz (MathQuizLogic, QuizController, *)
(*                     QuizFrame)                                           *)
(*   main.py           the untimed maths quiz (MathsQuizApp, QuizPage,      *)
(*                     ResultsPage)                                         *)
(*   StudentReport.py  the student record manager                           *)
(*   Alexa.py          the joke teller, with its narration and waiter       *)
(*                     threads                                              *)
(* Each Tk event handler or `after` callback is one action, and so is each *)
(* step of a thread between two points where another thread may run.  Text typed by *)
(* the user is a sequence of one-character strings, so that int() is       *)
(* modelled by what it accepts and rejects.                                 *)
(***************************************************************************)
EXTENDS Integers, Sequences, FiniteSets, TLC

VARIABLES
    app,              \* the program that is running
    \* ---- quiz.py: MathQuizLogic
    score, questions_attempted, current_answer, attempts_remaining, lives,
    difficulty,
    \* ---- quiz.py: QuizFrame / QuizController
    time_left,        \* QuizFrame.time_left
    after_id,         \* QuizFrame.after_id: "None", "scheduled" (its callback is
                      \* pending) or "expired" (its callback has run)
    next_pending,     \* number of pending after(1500, next_question) callbacks
    controls,         \* state of submit_button and answer_entry
    question_label,   \* the problem shown, as [num1, operation, num2]
    frame,            \* the frame raised by show_frame
    shown,            \* what the last show_results call saw and displayed
    finished,         \* history: show_results ran since the last initialize_quiz
    \* ---- main.py: MathsQuizApp
    app_score, app_lives, app_difficulty, question_index,
    quiz_data,        \* the ten questions, each [q_str, answer]
    attempts,         \* quiz_data[question_index]['attempts']: the entries
                      \* before question_index are never read again, so only
                      \* the current question's counter is kept
    current_page,     \* the class of MathsQuizApp.current_page
    rank,             \* the rank label of the ResultsPage
    \* ---- generate_problem on its own
    draw,             \* the tier and what random_int and decide_operation return
    generated,        \* what generate_problem returns and stores for draw
    \* ---- history shared by the two quizzes
    tries,            \* integer answers checked on the posed problem
    wrongs,           \* wrong integer answers on the posed problem
    last,             \* the handler that ran last and what it did
    \* ---- StudentReport.py: DataManager
    students,         \* DataManager.students, a sequence of Student records
    class_size,       \* DataManager.class_size
    file,             \* the file at STUDENT_FILE_PATH: [exists, lines]
    \* ---- StudentReport.py: ManageFrame
    current_action,   \* ManageFrame.current_action
    validate,         \* the -validate option of the four mark entries
    \* ---- StudentReport.py: SearchFrame
    individual_output_area, \* what the Text widget of the search view shows
    \* ---- Alexa.py
    placed,           \* the buttons the user can click
    current_joke,     \* JokeFrame.current_joke
    threads,          \* every threading.Thread started, in the order of start
    tts_thread        \* SpeechManager.tts_thread: a position in threads, or
                      \* None

quizVars == <<score, questions_attempted, current_answer, attempts_remaining,
              lives, difficulty, time_left, after_id, next_pending, controls,
              question_label, frame, shown, finished>>

mainVars == <<app_score, app_lives, app_difficulty, question_index, quiz_data,
              attempts, current_page, rank>>

genVars == <<draw, generated>>

histVars == <<tries, wrongs, last>>

rosterVars == <<students, class_size, file, current_action, validate,
                individual_output_area>>

jokeVars == <<placed, current_joke, threads, tts_thread>>

vars == <<app, quizVars, mainVars, genVars, histVars, rosterVars, jokeVars>>

\* what the handlers of one program leave alone
outsideQuiz == <<app, mainVars, genVars, rosterVars, jokeVars>>
outsideMain == <<app, quizVars, genVars, rosterVars, jokeVars>>
outsideRoster == <<app, quizVars, mainVars, genVars, tries, wrongs,
                   individual_output_area, jokeVars>>
outsideData == <<app, quizVars, mainVars, genVars, tries, wrongs,
                 current_action, validate, individual_output_area, jokeVars>>
outsideSearch == <<app, quizVars, mainVars, genVars, tries, wrongs, students,
                   class_size, file, current_action, validate, jokeVars>>
outsideJoke == <<app, quizVars, mainVars, genVars, tries, wrongs, rosterVars>>

(***************************************************************************)
(* Bounds of the model.                                                    *)
(***************************************************************************)
\* the countdown of a question, in ticks; it stands for quiz.py's
\* QUESTION_TIME_LIMIT (15), whose size only sets how many ticks precede a
\* timeout
TimeLimit == 1
\* at most this many after(1500, next_question) callbacks are pending at once
MaxPending == 2
\* at most this many integer answers are submitted on one posed problem
MaxTries == 2
\* generate_problem on its own draws its operands from the GenWidth lowest
\* values of the tier's range and its highest value
GenWidth == 3
\* the joke teller starts at most this many threads
MaxThreads == 4

(***************************************************************************)
(* Program constants.                                                      *)
(***************************************************************************)
QUESTION_TIME_LIMIT == TimeLimit
MAX_LIVES == 5
max_questions == 10
None == -1

Levels == {"Beginner", "Intermediate", "Advanced"}

DIFFICULTY_SETTINGS ==
    [l \in Levels |-> CASE l = "Beginner" -> <<1, 9>>
                        [] l = "Intermediate" -> <<10, 99>>
                        [] l = "Advanced" -> <<1000, 9999>>]

(***************************************************************************)
(* Text and int().                                                         *)
(***************************************************************************)
Digits == <<"0", "1", "2", "3", "4", "5", "6", "7", "8", "9">>

IsDigit(c) == \E i \in 1..10 : Digits[i] = c

DigitValue(c) == (CHOOSE i \in 1..10 : Digits[i] = c) - 1

RECURSIVE strip(_)
\* str.strip(): leading and trailing blanks removed
strip(s) ==
    IF s = <<>> THEN s
    ELSE IF Head(s) = " " THEN strip(Tail(s))
    ELSE IF s[Len(s)] = " " THEN strip(SubSeq(s, 1, Len(s) - 1))
    ELSE s

\* the digits of an integer literal after its optional sign
Unsigned(s) == IF s # <<>> /\ Head(s) \in {"+", "-"} THEN Tail(s) ELSE s

\* int(s) does not raise ValueError: blanks around an optionally signed,
\* non-empty run of decimal digits
IsInt(s) ==
    LET d == Unsigned(strip(s))
    IN  d # <<>> /\ \A i \in 1..Len(d) : IsDigit(d[i])

RECURSIVE DigitsValue(_)
DigitsValue(d) ==
    IF d = <<>> THEN 0
    ELSE 10 * DigitsValue(SubSeq(d, 1, Len(d) - 1)) + DigitValue(d[Len(d)])

\* int(s) for a string int() accepts
int(s) ==
    LET t == strip(s)
    IN  IF Head(t) = "-" THEN 0 - DigitsValue(Unsigned(t))
        ELSE DigitsValue(Unsigned(t))

RECURSIVE NatStr(_)
NatStr(n) ==
    IF n < 10 THEN <<Digits[n + 1]>>
    ELSE NatStr(n \div 10) \o <<Digits[(n % 10) + 1]>>

\* str(n)
str(n) == IF n < 0 THEN <<"-">> \o NatStr(0 - n) ELSE NatStr(n)

\* the literal the timeout handler passes to check_answer
TimeoutText == <<"T", "i", "m", "e", "o", "u", "t">>

\* what the user may have typed when an answer is submitted: nothing, blanks,
\* a word, a decimal fraction, the right answer (also padded with blanks),
\* and a wrong integer
Typed(answer) ==
    { <<>>, <<" ">>, <<"a">>, str(answer) \o <<".", "0">>,
      str(answer), <<" ">> \o str(answer) \o <<" ">>, str(answer + 1) }

(***************************************************************************)
(* quiz.py: MathQuizLogic                                                  *)
(***************************************************************************)
\* the draws of one generate_problem call in the quiz machine: the first
\* operand is the lowest value of the tier's range and the second the
\* highest, so that every subtraction needs the swap
Draws(level) ==
    {<<DIFFICULTY_SETTINGS[level][1], DIFFICULTY_SETTINGS[level][2], op>> :
        op \in {"+", "-"}}

\* generate_problem without the swap that keeps subtraction non-negative
generate_problem_noswap(n1, n2, op) ==
    [num1 |-> n1, operation |-> op, num2 |-> n2,
     current_answer |-> IF op = "+" THEN n1 + n2 ELSE n1 - n2]

\* generate_problem for the draws n1, n2, op: the operands and operator of
\* the returned string, and the answer it stores
generate_problem(n1, n2, op) ==
    LET swap == op = "-" /\ n1 < n2
        num1 == IF swap THEN n2 ELSE n1
        num2 == IF swap THEN n1 ELSE n2
    IN  [num1 |-> num1, operation |-> op, num2 |-> num2,
         current_answer |-> IF op = "+" THEN num1 + num2 ELSE num1 - num2]

\* check_answer that charges an attempt for input that is no integer
check_answer_penalise_invalid(user_input, L) ==
    IF ~IsInt(user_input)
    THEN [feedback |-> "Invalid Input", solved |-> FALSE, game_over |-> FALSE,
          score |-> L.score, questions_attempted |-> L.questions_attempted,
          attempts_remaining |-> L.attempts_remaining - 1, lives |-> L.lives]
    ELSE IF int(user_input) = L.current_answer
    THEN [feedback |-> "Correct", solved |-> TRUE, game_over |-> FALSE,
          score |-> L.score + (IF L.attempts_remaining = 2 THEN 10 ELSE 5),
          questions_attempted |-> L.questions_attempted + 1,
          attempts_remaining |-> L.attempts_remaining, lives |-> L.lives]
    ELSE [feedback |-> IF L.attempts_remaining = 1 THEN "Wrong!" ELSE "Wrong.",
          solved |-> L.attempts_remaining = 1,
          game_over |-> L.attempts_remaining = 1 /\ L.lives <= 1,
          score |-> L.score,
          questions_attempted |-> L.questions_attempted
                                  + (IF L.attempts_remaining = 1 THEN 1 ELSE 0),
          attempts_remaining |-> L.attempts_remaining - 1,
          lives |-> L.lives - (IF L.attempts_remaining = 1 THEN 1 ELSE 0)]

\* check_answer that takes no life on the second wrong answer
check_answer_keep_life(user_input, L) ==
    IF ~IsInt(user_input)
    THEN [feedback |-> "Invalid Input", solved |-> FALSE, game_over |-> FALSE,
          score |-> L.score, questions_attempted |-> L.questions_attempted,
          attempts_remaining |-> L.attempts_remaining, lives |-> L.lives]
    ELSE IF int(user_input) = L.current_answer
    THEN [feedback |-> "Correct", solved |-> TRUE, game_over |-> FALSE,
          score |-> L.score + (IF L.attempts_remaining = 2 THEN 10 ELSE 5),
          questions_attempted |-> L.questions_attempted + 1,
          attempts_remaining |-> L.attempts_remaining, lives |-> L.lives]
    ELSE [feedback |-> IF L.attempts_remaining = 1 THEN "Wrong!" ELSE "Wrong.",
          solved |-> L.attempts_remaining = 1,
          game_over |-> FALSE,
          score |-> L.score,
          questions_attempted |-> L.questions_attempted
                                  + (IF L.attempts_remaining = 1 THEN 1 ELSE 0),
          attempts_remaining |-> L.attempts_remaining - 1,
          lives |-> L.lives]

\* check_answer on the logic state L: the values it leaves, its return value
\* (feedback, solved) and whether it called controller.show_results
check_answer(user_input, L) ==
    IF ~IsInt(user_input)
    THEN [feedback |-> "Invalid Input", solved |-> FALSE, game_over |-> FALSE,
          score |-> L.score, questions_attempted |-> L.questions_attempted,
          attempts_remaining |-> L.attempts_remaining, lives |-> L.lives]
    ELSE IF int(user_input) = L.current_answer
    THEN LET points == IF L.attempts_remaining = 2 THEN 10 ELSE 5
         IN  [feedback |-> "Correct", solved |-> TRUE, game_over |-> FALSE,
              score |-> L.score + points,
              questions_attempted |-> L.questions_attempted + 1,
              attempts_remaining |-> L.attempts_remaining, lives |-> L.lives]
    ELSE IF L.attempts_remaining - 1 = 0
    THEN [feedback |-> "Wrong!", solved |-> TRUE,
          game_over |-> L.lives - 1 <= 0,
          score |-> L.score,
          questions_attempted |-> L.questions_attempted + 1,
          attempts_remaining |-> L.attempts_remaining - 1,
          lives |-> L.lives - 1]
    ELSE [feedback |-> "Wrong.", solved |-> FALSE, game_over |-> FALSE,
          score |-> L.score, questions_attempted |-> L.questions_attempted,
          attempts_remaining |-> L.attempts_remaining - 1, lives |-> L.lives]

\* calculate_rank with the thresholds excluded from their ranks
calculate_rank_strict(s) ==
    LET full == max_questions * 10
    IN  IF s * 100 > 90 * full THEN "A+"
        ELSE IF s * 100 > 80 * full THEN "A"
        ELSE IF s * 100 > 70 * full THEN "B"
        ELSE IF s * 100 > 60 * full THEN "C"
        ELSE "F"

\* calculate_rank: the percentage is compared exactly; Python's float
\* (score / (max_questions * 10)) * 100 compares the same way against
\* 60, 70, 80 and 90 for every score in 0..400
calculate_rank(s) ==
    LET full == max_questions * 10
    IN  IF s * 100 >= 90 * full THEN "A+"
        ELSE IF s * 100 >= 80 * full THEN "A"
        ELSE IF s * 100 >= 70 * full THEN "B"
        ELSE IF s * 100 >= 60 * full THEN "C"
        ELSE "F"

\* the logic state check_answer reads
Logic == [score |-> score, questions_attempted |-> questions_attempted,
          attempts_remaining |-> attempts_remaining, lives |-> lives,
          current_answer |-> current_answer]

(***************************************************************************)
(* quiz.py: QuizController and QuizFrame                                   *)
(***************************************************************************)
NoResults == [message |-> "none", score |-> 0, rank |-> "none",
              lives |-> 0, questions_attempted |-> 0]

\* what show_results displays, with the lives and question count it found
show_results(message, sc, lv, qa) ==
    [message |-> message, score |-> sc, rank |-> calculate_rank(sc),
     lives |-> lv, questions_attempted |-> qa]

\* history records: the handler, whether the submitted text was an integer
\* for int() and the right answer, the handler's verdict on it, whether the
\* results were shown and whether a new problem was posed
NoEvent == [op |-> "init", isint |-> FALSE, right |-> FALSE,
            verdict |-> "none", results |-> FALSE, posed |-> FALSE]

Event(op, verdict, results, posed) ==
    [op |-> op, isint |-> FALSE, right |-> FALSE, verdict |-> verdict,
     results |-> results, posed |-> posed]

\* the record of a submission of text against the stored answer
Submitted(op, text, answer, verdict, results, posed) ==
    [op |-> op, isint |-> IsInt(text),
     right |-> IsInt(text) /\ int(text) = answer,
     verdict |-> verdict, results |-> results, posed |-> posed]

InitQuizFrame ==
    /\ score = 0
    /\ questions_attempted = 0
    /\ current_answer = None
    /\ attempts_remaining = 2
    /\ lives = MAX_LIVES
    /\ difficulty = "None"
    /\ time_left = QUESTION_TIME_LIMIT
    /\ after_id = "None"
    /\ next_pending = 0
    /\ controls = "normal"
    /\ question_label = [num1 |-> 0, operation |-> "Ready?", num2 |-> 0]
    /\ frame = "MainMenuFrame"
    /\ shown = NoResults
    /\ finished = FALSE

InitHistory ==
    /\ tries = 0
    /\ wrongs = 0
    /\ last = NoEvent

\* start_timer: any pending tick is cancelled, the countdown is reset and
\* update_timer_display runs once (QUESTION_TIME_LIMIT >= 0: it decrements
\* and schedules the next tick)
start_timer ==
    /\ time_left' = QUESTION_TIME_LIMIT - 1
    /\ after_id' = "scheduled"

\* the part of next_question after the question-limit check: controls are
\* enabled, a problem is generated and shown, the timer is started
PoseProblem(level) ==
    \E d \in Draws(level) :
        LET p == generate_problem(d[1], d[2], d[3])
        IN  /\ controls' = "normal"
            /\ current_answer' = p.current_answer
            /\ question_label' = [num1 |-> p.num1, operation |-> p.operation,
                                  num2 |-> p.num2]
            /\ attempts_remaining' = 2
            /\ tries' = 0
            /\ wrongs' = 0
            /\ start_timer

\* MainMenuFrame: PLAY
ClickPlay ==
    /\ app = "quiz.py"
    /\ UNCHANGED outsideQuiz
    /\ frame = "MainMenuFrame"
    /\ frame' = "LevelSelectFrame"
    /\ last' = Event("show_frame", "none", FALSE, FALSE)
    /\ UNCHANGED <<score, questions_attempted, current_answer,
                   attempts_remaining, lives, difficulty, time_left, after_id,
                   next_pending, controls, question_label, finished,
                   tries, wrongs>>
    /\ shown' = NoResults

\* LevelSelectFrame: Back to Menu
ClickBack ==
    /\ app = "quiz.py"
    /\ UNCHANGED outsideQuiz
    /\ frame = "LevelSelectFrame"
    /\ frame' = "MainMenuFrame"
    /\ last' = Event("show_frame", "none", FALSE, FALSE)
    /\ UNCHANGED <<score, questions_attempted, current_answer,
                   attempts_remaining, lives, difficulty, time_left, after_id,
                   next_pending, controls, question_label, finished,
                   tries, wrongs>>
    /\ shown' = NoResults

\* QuizController.start_game(level) with QuizFrame.initialize_quiz and the
\* next_question it calls (questions_attempted is 0 there)
start_game(level) ==
    /\ app = "quiz.py"
    /\ UNCHANGED outsideQuiz
    /\ frame = "LevelSelectFrame"
    /\ difficulty' = level
    /\ score' = 0
    /\ questions_attempted' = 0
    /\ lives' = MAX_LIVES
    /\ PoseProblem(level)
    /\ frame' = "QuizFrame"
    /\ finished' = FALSE
    /\ last' = Event("start_game", "none", FALSE, TRUE)
    /\ shown' = NoResults
    /\ UNCHANGED next_pending

\* QuizFrame.update_timer_display run as the pending `after` callback
update_timer_display ==
    /\ app = "quiz.py"
    /\ UNCHANGED outsideQuiz
    /\ after_id = "scheduled"
    /\ IF time_left >= 0
       THEN /\ time_left' = time_left - 1
            /\ after_id' = "scheduled"
            /\ last' = Event("tick", "none", FALSE, FALSE)
            /\ UNCHANGED <<score, questions_attempted, current_answer,
                           attempts_remaining, lives, difficulty, next_pending,
                           controls, question_label, frame, finished,
                           tries, wrongs>>
            /\ shown' = NoResults
       ELSE LET r == check_answer(TimeoutText,
                                  [Logic EXCEPT !.attempts_remaining = 1])
            IN  /\ next_pending < MaxPending
                /\ controls' = "disabled"
                /\ score' = r.score
                /\ questions_attempted' =
                       IF r.game_over THEN 0 ELSE r.questions_attempted
                /\ attempts_remaining' = r.attempts_remaining
                /\ lives' = IF r.game_over THEN MAX_LIVES ELSE r.lives
                /\ shown' = IF r.game_over
                            THEN show_results("Game Over! Out of Lives.",
                                     r.score, r.lives, r.questions_attempted)
                            ELSE NoResults
                /\ finished' = (finished \/ r.game_over)
                /\ frame' = IF r.game_over THEN "MainMenuFrame" ELSE frame
                /\ after_id' = "expired"
                /\ next_pending' = next_pending + 1
                /\ last' = Event("timeout", "none", r.game_over, FALSE)
                /\ UNCHANGED <<current_answer, difficulty, time_left,
                               question_label, tries, wrongs>>

\* QuizFrame.next_question run as a pending after(1500, ...) callback
next_question ==
    /\ app = "quiz.py"
    /\ UNCHANGED outsideQuiz
    /\ next_pending > 0
    /\ next_pending' = next_pending - 1
    /\ IF questions_attempted >= max_questions
       THEN /\ shown' = show_results("Quiz Completed Successfully!", score,
                                     lives, questions_attempted)
            /\ lives' = MAX_LIVES
            /\ questions_attempted' = 0
            /\ frame' = "MainMenuFrame"
            /\ finished' = TRUE
            /\ last' = Event("next_question", "none", TRUE, FALSE)
            /\ UNCHANGED <<score, current_answer, attempts_remaining,
                           difficulty, time_left, after_id, controls,
                           question_label, tries, wrongs>>
       ELSE /\ PoseProblem(difficulty)
            /\ last' = Event("next_question", "none", FALSE, TRUE)
            /\ shown' = NoResults
            /\ UNCHANGED <<score, questions_attempted, lives, difficulty,
                           frame, finished>>

\* QuizFrame.submit_answer with the text user_input in answer_entry (Submit
\* or Return while the quiz frame is raised and its controls are enabled)
submit_answer(user_input) ==
    /\ app = "quiz.py"
    /\ UNCHANGED outsideQuiz
    /\ frame = "QuizFrame"
    /\ controls = "normal"
    /\ IF strip(user_input) = <<>>
       THEN /\ last' = Submitted("submit_answer", user_input, current_answer, "empty", FALSE,
                                 FALSE)
            /\ UNCHANGED <<score, questions_attempted, current_answer,
                           attempts_remaining, lives, difficulty, time_left,
                           after_id, next_pending, controls, question_label,
                           frame, finished, tries, wrongs>>
            /\ shown' = NoResults
       ELSE LET r == check_answer(strip(user_input), Logic)
                verdict == CASE r.feedback = "Invalid Input" -> "invalid"
                             [] r.feedback = "Correct" -> "correct"
                             [] OTHER -> "wrong"
            IN  /\ verdict # "invalid" => tries < MaxTries
                /\ r.solved => next_pending < MaxPending
                /\ score' = r.score
                /\ questions_attempted' =
                       IF r.game_over THEN 0 ELSE r.questions_attempted
                /\ attempts_remaining' = r.attempts_remaining
                /\ lives' = IF r.game_over THEN MAX_LIVES ELSE r.lives
                /\ shown' = IF r.game_over
                            THEN show_results("Game Over! Out of Lives.",
                                     r.score, r.lives, r.questions_attempted)
                            ELSE NoResults
                /\ finished' = (finished \/ r.game_over)
                /\ frame' = IF r.game_over THEN "MainMenuFrame" ELSE frame
                /\ tries' = IF verdict = "invalid" THEN tries ELSE tries + 1
                /\ wrongs' = IF verdict = "wrong" THEN wrongs + 1 ELSE wrongs
                /\ IF r.solved
                   THEN \* after(1500, self.next_question); the tick was cancelled
                        /\ after_id' = "None"
                        /\ next_pending' = next_pending + 1
                        /\ UNCHANGED time_left
                   ELSE \* invalid input or an attempt left: start_timer
                        /\ start_timer
                        /\ UNCHANGED next_pending
                /\ last' = Submitted("submit_answer", user_input, current_answer, verdict,
                                     r.game_over, FALSE)
                /\ UNCHANGED <<current_answer, difficulty, controls,
                               question_label>>

NextQuiz ==
    \/ ClickPlay
    \/ ClickBack
    \/ \E level \in Levels : start_game(level)
    \/ update_timer_display
    \/ next_question
    \/ \E user_input \in Typed(current_answer) : submit_answer(user_input)

(***************************************************************************)
(* quiz.py: generate_problem on its own                                    *)
(***************************************************************************)
\* the values random_int(min_val, max_val) returns, within the model's bound
Operands(level) ==
    LET lo == DIFFICULTY_SETTINGS[level][1]
        hi == DIFFICULTY_SETTINGS[level][2]
    IN  {v \in lo..(lo + GenWidth - 1) : v <= hi} \cup {hi}

DrawsOf(level) ==
    {[level |-> level, n1 |-> a, n2 |-> b, op |-> o] :
        a \in Operands(level), b \in Operands(level), o \in {"+", "-"}}

NoDraw == [level |-> "None", n1 |-> 0, n2 |-> 0, op |-> "+"]

NoProblem == [num1 |-> 0, operation |-> "none", num2 |-> 0,
              current_answer |-> None]

InitNoGen == draw = NoDraw /\ generated = NoProblem

\* set_difficulty(level), then the three draws of a generate_problem call
DrawProblem ==
    /\ app = "generate_problem"
    /\ \E level \in Levels : draw' \in DrawsOf(level)
    /\ generated' = NoProblem
    /\ UNCHANGED <<app, quizVars, mainVars, histVars, rosterVars,
                   jokeVars>>

\* the rest of generate_problem
GenerateProblem ==
    /\ app = "generate_problem"
    /\ draw # NoDraw
    /\ generated' = generate_problem(draw.n1, draw.n2, draw.op)
    /\ UNCHANGED <<app, draw, quizVars, mainVars, histVars,
                   rosterVars, jokeVars>>

(***************************************************************************)
(* main.py                                                                 *)
(***************************************************************************)
MAX_QUESTIONS == 10
APP_MAX_LIVES == 5
FIRST_ATTEMPT_POINTS == 10
SECOND_ATTEMPT_POINTS == 5

DIFFICULTY_RANGES ==
    [l \in Levels |-> CASE l = "Beginner" -> <<1, 9>>
                        [] l = "Intermediate" -> <<10, 99>>
                        [] l = "Advanced" -> <<100, 999>>]

\* the draws of one pass of start_quiz's loop in the quiz machine: the first
\* operand is the lowest value of the tier's range and the second the highest
RangeDraws(level) ==
    LET lo == DIFFICULTY_RANGES[level][1]
        hi == DIFFICULTY_RANGES[level][2]
    IN  {<<lo, hi>>} \X {"+", "-"}

\* one pass of start_quiz's loop for the draws n1, n2, op: the question
\* string's operands and operator, and the stored answer
new_question(n1, n2, op) ==
    [q_str |-> <<n1, op, n2>>, answer |-> IF op = "+" THEN n1 + n2 ELSE n1 - n2]

\* the rank ResultsPage.__init__ shows for a score
results_rank(s) ==
    IF s >= 90 THEN "A+"
    ELSE IF s >= 80 THEN "A"
    ELSE IF s >= 70 THEN "B"
    ELSE "C"

InitMainApp ==
    /\ app_score = 0
    /\ app_lives = APP_MAX_LIVES
    /\ app_difficulty = "None"
    /\ question_index = 0
    /\ quiz_data = <<>>
    /\ attempts = 1
    /\ current_page = "MainMenuPage"
    /\ rank = "none"

\* MainMenuPage: Quiz
show_difficulty_select_page ==
    /\ app = "main.py"
    /\ UNCHANGED outsideMain
    /\ current_page = "MainMenuPage"
    /\ current_page' = "DifficultySelectPage"
    /\ last' = Event("switch_page", "none", FALSE, FALSE)
    /\ UNCHANGED <<app_score, app_lives, app_difficulty, question_index,
                   quiz_data, attempts, rank, tries, wrongs>>

\* DifficultySelectPage: Back to Menu; ResultsPage: Play Again
show_main_menu ==
    /\ app = "main.py"
    /\ UNCHANGED outsideMain
    /\ current_page \in {"DifficultySelectPage", "ResultsPage"}
    /\ current_page' = "MainMenuPage"
    /\ rank' = "none"
    /\ last' = Event("switch_page", "none", FALSE, FALSE)
    /\ UNCHANGED <<app_score, app_lives, app_difficulty, question_index,
                   quiz_data, attempts, tries, wrongs>>

\* DifficultySelectPage.start_quiz(level), and the display_problem that the
\* new QuizPage runs (question_index is 0 and lives is 5 there).  The ten
\* draws are two independent draws, taken in turn.
start_quiz(level) ==
    /\ app = "main.py"
    /\ UNCHANGED outsideMain
    /\ current_page = "DifficultySelectPage"
    /\ app_difficulty' = level
    /\ app_score' = 0
    /\ app_lives' = APP_MAX_LIVES
    /\ question_index' = 0
    /\ \E a \in RangeDraws(level), b \in RangeDraws(level) :
           quiz_data' = [i \in 1..MAX_QUESTIONS |->
                            IF i % 2 = 1
                            THEN new_question(a[1][1], a[1][2], a[2])
                            ELSE new_question(b[1][1], b[1][2], b[2])]
    /\ attempts' = 1
    /\ current_page' = "QuizPage"
    /\ rank' = "none"
    /\ tries' = 0
    /\ wrongs' = 0
    /\ last' = Event("start_quiz", "none", FALSE, TRUE)

\* display_problem that ends the quiz one question early
display_problem_early(sc, lv, idx) ==
    IF idx >= MAX_QUESTIONS - 1 \/ lv <= 0
    THEN /\ current_page' = "ResultsPage"
         /\ rank' = IF sc >= 90 THEN "A+" ELSE IF sc >= 80 THEN "A"
                    ELSE IF sc >= 70 THEN "B" ELSE "C"
    ELSE /\ current_page' = "QuizPage"
         /\ rank' = "none"

\* QuizPage.display_problem for the state sc, lv, idx: the results page, or
\* the quiz page with the question at idx
display_problem(sc, lv, idx) ==
    IF idx >= MAX_QUESTIONS \/ lv <= 0
    THEN /\ current_page' = "ResultsPage"
         /\ rank' = results_rank(sc)
    ELSE /\ current_page' = "QuizPage"
         /\ rank' = "none"

\* QuizPage.check_answer with the text entry_text in answer_entry
QuizPage_check_answer(entry_text) ==
    /\ app = "main.py"
    /\ UNCHANGED outsideMain
    /\ current_page = "QuizPage"
    /\ IF ~IsInt(entry_text)
       THEN /\ last' = Submitted("check_answer", entry_text,
                                quiz_data[question_index + 1].answer, "invalid", FALSE,
                                 FALSE)
            /\ UNCHANGED <<mainVars, tries, wrongs>>
       ELSE LET q == quiz_data[question_index + 1]
            IN  IF int(entry_text) = q.answer
                THEN LET points == IF attempts = 1 THEN FIRST_ATTEMPT_POINTS
                                   ELSE SECOND_ATTEMPT_POINTS
                     IN  /\ app_score' = app_score + points
                         /\ question_index' = question_index + 1
                         /\ attempts' = 1
                         /\ display_problem(app_score + points, app_lives,
                                            question_index + 1)
                         /\ tries' = 0
                         /\ wrongs' = 0
                         /\ last' = Submitted("check_answer", entry_text,
                                quiz_data[question_index + 1].answer, "correct",
                                current_page' = "ResultsPage",
                                current_page' = "QuizPage")
                         /\ UNCHANGED <<app_lives, app_difficulty, quiz_data>>
                ELSE IF attempts + 1 > 2
                THEN /\ app_lives' = app_lives - 1
                     /\ question_index' = question_index + 1
                     /\ attempts' = 1
                     /\ display_problem(app_score, app_lives - 1,
                                        question_index + 1)
                     /\ tries' = 0
                     /\ wrongs' = 0
                     /\ last' = Submitted("check_answer", entry_text,
                                quiz_data[question_index + 1].answer, "wrong",
                                current_page' = "ResultsPage",
                                current_page' = "QuizPage")
                     /\ UNCHANGED <<app_score, app_difficulty, quiz_data>>
                ELSE /\ attempts' = attempts + 1
                     /\ tries' = tries + 1
                     /\ wrongs' = wrongs + 1
                     /\ last' = Submitted("check_answer", entry_text,
                                quiz_data[question_index + 1].answer, "wrong",
                                          FALSE, FALSE)
                     /\ UNCHANGED <<app_score, app_lives, app_difficulty,
                                    question_index, quiz_data, current_page,
                                    rank>>

\* QuizPage.confirm_quit with the answer given to the askyesno dialog
confirm_quit(yes) ==
    /\ app = "main.py"
    /\ UNCHANGED outsideMain
    /\ current_page = "QuizPage"
    /\ IF yes
       THEN /\ current_page' = "ResultsPage"
            /\ rank' = results_rank(app_score)
            /\ last' = Event("confirm_quit", "none", TRUE, FALSE)
       ELSE /\ last' = Event("confirm_quit", "none", FALSE, FALSE)
            /\ UNCHANGED <<current_page, rank>>
    /\ UNCHANGED <<app_score, app_lives, app_difficulty, question_index,
                   quiz_data, attempts, tries, wrongs>>

\* what may be in answer_entry when Submit is pressed
EntryTexts ==
    IF current_page = "QuizPage"
    THEN Typed(quiz_data[question_index + 1].answer)
    ELSE {}

NextMain ==
    \/ show_difficulty_select_page
    \/ show_main_menu
    \/ \E level \in Levels : start_quiz(level)
    \/ \E entry_text \in EntryTexts : QuizPage_check_answer(entry_text)
    \/ \E yes \in BOOLEAN : confirm_quit(yes)

(***************************************************************************)
(* StudentReport.py: Student                                               *)
(***************************************************************************)
TOTAL_MAX_MARKS == 160

\* add is offered while the roster holds fewer students than this
MaxStudents == 2
\* at most this many mark entries have their key validation switched off
MaxDisabled == 1
\* a class file of the search view holds at most this many record lines
MaxLines == 2

ScoreKeys == {"c1", "c2", "c3", "exam"}

\* the one character U+00B2, superscript two: str.isdigit() is true of it
\* and int() raises ValueError on it
SUPERSCRIPT_TWO == "sup2"

\* str.isdigit()
isdigit(s) ==
    s # <<>> /\ \A i \in 1..Len(s) : IsDigit(s[i]) \/ s[i] = SUPERSCRIPT_TWO

Upper == <<"A", "B", "N", "Z">>
Lower == <<"a", "b", "n", "z">>

\* str.lower(), on the letters the model uses
lower(s) ==
    [i \in 1..Len(s) |->
        IF \E j \in 1..Len(Upper) : Upper[j] = s[i]
        THEN Lower[CHOOSE j \in 1..Len(Upper) : Upper[j] = s[i]]
        ELSE s[i]]

\* term in s
Contains(term, s) ==
    \E i \in 0..(Len(s) - Len(term)) : SubSeq(s, i + 1, i + Len(term)) = term

RECURSIVE split(_)
\* s.split(',')
split(s) ==
    IF \A i \in 1..Len(s) : s[i] # "," THEN <<s>>
    ELSE LET i == CHOOSE i \in 1..Len(s) :
                      s[i] = "," /\ \A j \in 1..(i - 1) : s[j] # ","
         IN  <<SubSeq(s, 1, i - 1)>> \o split(SubSeq(s, i + 1, Len(s)))

\* self.overall_percentage is kept exactly, as the number of
\* TOTAL_MAX_MARKS-ths of a percent: (total_score / TOTAL_MAX_MARKS) * 100
\* is total_score * 100 of them, and n percent is n * TOTAL_MAX_MARKS
Percent(n) == n * TOTAL_MAX_MARKS

_calculate_grade(overall_percentage) ==
    IF overall_percentage >= Percent(70) THEN "A"
    ELSE IF Percent(60) <= overall_percentage
            /\ overall_percentage <= Percent(69) THEN "B"
    ELSE IF Percent(50) <= overall_percentage
            /\ overall_percentage <= Percent(59) THEN "C"
    ELSE IF Percent(40) <= overall_percentage
            /\ overall_percentage <= Percent(49) THEN "D"
    ELSE "F"

_recalculate_derived_data(self) ==
    LET coursework_total == self.c1 + self.c2 + self.c3
        total_score == coursework_total + self.exam
        overall_percentage == total_score * 100
    IN  [self EXCEPT !.coursework_total = coursework_total,
                     !.total_score = total_score,
                     !.overall_percentage = overall_percentage,
                     !.grade = _calculate_grade(overall_percentage)]

\* Student.__init__, for marks int() has accepted
Student(code, name, c1, c2, c3, exam) ==
    _recalculate_derived_data(
        [code |-> code, name |-> name, c1 |-> c1, c2 |-> c2, c3 |-> c3,
         exam |-> exam, coursework_total |-> 0, total_score |-> 0,
         overall_percentage |-> 0, grade |-> "F"])

\* to_file_format with the name written before the code
to_file_format_name_first(self) ==
    self.name \o <<",">> \o self.code \o <<",">> \o str(self.c1) \o <<",">>
        \o str(self.c2) \o <<",">> \o str(self.c3) \o <<",">> \o str(self.exam)

to_file_format(self) ==
    self.code \o <<",">> \o self.name \o <<",">> \o str(self.c1) \o <<",">>
        \o str(self.c2) \o <<",">> \o str(self.c3) \o <<",">> \o str(self.exam)

(***************************************************************************)
(* StudentReport.py: DataManager                                           *)
(***************************************************************************)
RECURSIVE load_records(_, _)
\* the loop of load_data over lines[1:]: the students appended, and whether
\* the loop ran to its end (a Student() whose int() raises ends it)
load_records(lines, acc) ==
    IF lines = <<>> THEN [students |-> acc, completed |-> TRUE]
    ELSE LET parts == split(strip(Head(lines)))
         IN  IF Len(parts) # 6 THEN load_records(Tail(lines), acc)
             ELSE IF \A i \in 3..6 : IsInt(parts[i])
             THEN load_records(Tail(lines),
                      Append(acc, Student(parts[1], parts[2], int(parts[3]),
                                  int(parts[4]), int(parts[5]), int(parts[6]))))
             ELSE [students |-> acc, completed |-> FALSE]

\* load_data on file f when self.class_size is size: the new students and
\* class_size
load_data(f, size) ==
    IF ~f.exists \/ f.lines = <<>> \/ ~IsInt(f.lines[1])
    THEN [students |-> <<>>, class_size |-> size]
    ELSE LET loaded == load_records(Tail(f.lines), <<>>)
         IN  [students |-> loaded.students,
              class_size |-> IF loaded.completed THEN Len(loaded.students)
                             ELSE int(f.lines[1])]

\* whether open(STUDENT_FILE_PATH, 'w') succeeds
SaveOutcomes == {"saved", "open fails"}

\* save_data of the list sts over file f: the new class_size and file, and
\* the value returned.  A failing open leaves the file as it was
save_data(sts, f, outcome) ==
    [class_size |-> Len(sts),
     file |-> IF outcome = "saved"
              THEN [exists |-> TRUE,
                    lines |-> <<str(Len(sts))>>
                              \o [i \in 1..Len(sts) |-> to_file_format(sts[i])]]
              ELSE f,
     returned |-> outcome = "saved"]

\* find_student: the positions in sts of the students it returns, in order
find_student(sts, search_term) ==
    LET term == lower(strip(search_term))
    IN  SelectSeq([i \in 1..Len(sts) |-> i],
                  LAMBDA i : sts[i].code = term
                             \/ Contains(term, lower(sts[i].name)))

\* the characters of the model in the order of their code points
CodePoints ==
    <<" ", ",", "0", "1", "2", "3", "4", "5", "6", "7", "8", "9", "A", "B",
      "N", "Z", "a", "b", "n", "o", "x", "z">>

RECURSIVE str_lt(_, _)
\* a < b for two str: the first character that differs decides, by code
\* point, and a proper prefix is the smaller
str_lt(a, b) ==
    IF b = <<>> THEN FALSE
    ELSE IF a = <<>> THEN TRUE
    ELSE IF Head(a) = Head(b) THEN str_lt(Tail(a), Tail(b))
    ELSE (CHOOSE i \in 1..Len(CodePoints) : CodePoints[i] = Head(a))
             < (CHOOSE i \in 1..Len(CodePoints) : CodePoints[i] = Head(b))

\* sort_key(a) < sort_key(b) for the sort_key of key_attr
key_lt(key_attr, a, b) ==
    IF key_attr = "name" THEN str_lt(a.name, b.name)
    ELSE a[key_attr] < b[key_attr]

RECURSIVE insert_before_equal(_, _, _, _)
\* insert with x put before the students of the same key
insert_before_equal(sorted, x, key_attr, ascending) ==
    IF sorted = <<>> THEN <<x>>
    ELSE IF (IF ascending THEN ~key_lt(key_attr, Head(sorted), x)
             ELSE ~key_lt(key_attr, x, Head(sorted)))
    THEN <<x>> \o sorted
    ELSE <<Head(sorted)>>
             \o insert_before_equal(Tail(sorted), x, key_attr, ascending)

RECURSIVE insert(_, _, _, _)
\* list.sort is stable, with reverse too: x, which came after the students
\* of sorted, goes before the first of them that must follow it
insert(sorted, x, key_attr, ascending) ==
    IF sorted = <<>> THEN <<x>>
    ELSE IF (IF ascending THEN key_lt(key_attr, x, Head(sorted))
             ELSE key_lt(key_attr, Head(sorted), x))
    THEN <<x>> \o sorted
    ELSE <<Head(sorted)>> \o insert(Tail(sorted), x, key_attr, ascending)

RECURSIVE sort_records(_, _, _)
\* sort_records: self.students.sort(key=sort_key, reverse=not ascending)
sort_records(sts, key_attr, ascending) ==
    IF sts = <<>> THEN <<>>
    ELSE insert(sort_records(SubSeq(sts, 1, Len(sts) - 1), key_attr,
                             ascending),
                sts[Len(sts)], key_attr, ascending)

\* find_extremes with the last of the students of the extreme total
find_extremes_last(sts, highest) ==
    IF sts = <<>> THEN 0
    ELSE CHOOSE i \in 1..Len(sts) :
             /\ \A j \in 1..Len(sts) :
                    IF highest THEN sts[j].total_score <= sts[i].total_score
                    ELSE sts[j].total_score >= sts[i].total_score
             /\ \A j \in (i + 1)..Len(sts) :
                    sts[j].total_score # sts[i].total_score

\* find_extremes: the position in sts of the student max() or min() returns,
\* the first of those with the extreme total_score; 0 for None
find_extremes(sts, highest) ==
    IF sts = <<>> THEN 0
    ELSE CHOOSE i \in 1..Len(sts) :
             /\ \A j \in 1..Len(sts) :
                    IF highest THEN sts[j].total_score <= sts[i].total_score
                    ELSE sts[j].total_score >= sts[i].total_score
             /\ \A j \in 1..(i - 1) :
                    sts[j].total_score # sts[i].total_score

\* list.pop() in place of list.remove: the last object goes
remove_last(sts, i) == SubSeq(sts, 1, Len(sts) - 1)

\* list.remove of the object at position i
remove(sts, i) == SubSeq(sts, 1, i - 1) \o SubSeq(sts, i + 1, Len(sts))

(***************************************************************************)
(* StudentReport.py: the file found at start-up                            *)
(***************************************************************************)
Ann == <<"A", "n", "n">>
Bob == <<"B", "o", "b">>
Code1001 == <<"1", "0", "0", "1">>
Code1002 == <<"1", "0", "0", "2">>

RECURSIVE join(_)
\* ','.join(fields)
join(fields) ==
    IF Len(fields) = 1 THEN fields[1]
    ELSE fields[1] \o <<",">> \o join(Tail(fields))

NoFile == [exists |-> FALSE, lines |-> <<>>]

\* a class of one
ClassFile ==
    [exists |-> TRUE,
     lines |-> << <<"1">>,
                  join(<<Code1001, Ann, str(10), str(20), str(20), str(20)>>) >>]

\* a file declaring three records: a good one, a line of two fields, and a
\* record whose exam mark is not a number
DamagedFile ==
    [exists |-> TRUE,
     lines |-> << <<"3">>,
                  join(<<Code1001, Ann, str(10), str(20), str(20), str(20)>>),
                  join(<<Code1002, Bob>>),
                  join(<<Code1002, Bob, str(20), str(20), str(20), <<"x">>>>) >>]

InitialFiles == {NoFile, ClassFile}

(***************************************************************************)
(* StudentReport.py: StudentApp and ManageFrame                            *)
(***************************************************************************)
\* what the user may have put in the code entry: nothing, a blank, the code
\* of a student and the code of a new student
CodeTexts == {<<>>, <<" ">>, Code1001, <<"1", "0", "0", "3">>}

NameTexts == {<<>>, <<"Z", "o">>}

\* what an edit may try to leave in a mark entry
KeyTexts == {<<>>, <<"2", "0">>, <<"2", "1">>, <<"x">>, <<SUPERSCRIPT_TWO>>}

\* what the user may want in a mark entry when Execute is clicked
MarkTexts == {<<>>, <<"2", "0">>, <<"x">>}

\* _validate_numeric_input(P, key): "True", "False", or "ValueError" when
\* its int(P) raises
_validate_numeric_input(P, key) ==
    IF isdigit(P) \/ P = <<>>
    THEN IF P = <<>> THEN "True"
         ELSE IF ~IsInt(P) THEN "ValueError"
         ELSE IF key = "exam" /\ int(P) > 100 THEN "False"
         ELSE IF key \in {"c1", "c2", "c3"} /\ int(P) > 20 THEN "False"
         ELSE "True"
    ELSE "False"

\* what the entry of a mark can hold: an edit goes through the key
\* validation while the entry's -validate option is "key"
Held(key) ==
    {P \in MarkTexts :
        validate[key] = "none" \/ _validate_numeric_input(P, key) = "True"}

\* the mark entries when Execute is clicked
Marks == [c1 : Held("c1"), c2 : Held("c2"), c3 : Held("c3"),
          exam : Held("exam")]

\* the Text widget of the search view: the message it shows and the students
\* whose records it shows
Output(message, records) == [message |-> message, records |-> records]

NoOutput == Output("", <<>>)

\* history record of a ManageFrame handler: what its find_student call
\* returned (<<>> also when it made none), the position of the student it
\* appended, removed or assigned to (0: none) and what its save_data call
\* returned ("none": save_data was not called)
Managed(op, results, target, returned) ==
    [op |-> op, results |-> results, target |-> target,
     returned |-> returned]

\* the history record managed of a handler that read search_term, with
\* whether search_term is empty or made of blanks only
Searching(search_term, managed) ==
    [blank |-> strip(search_term) = <<>>] @@ managed

\* the value save_data returned, as the history keeps it
Returned(value) == IF value THEN "True" ELSE "False"

InitNoRoster ==
    /\ students = <<>>
    /\ class_size = 0
    /\ file = NoFile
    /\ current_action = "None"
    /\ validate = [key \in ScoreKeys |-> "key"]
    /\ individual_output_area = NoOutput

\* StudentApp.__init__: DataManager.__init__ runs load_data twice
InitStudentApp ==
    /\ file \in InitialFiles
    /\ LET first == load_data(file, 0)
           second == load_data(file, first.class_size)
       IN  /\ students = second.students
           /\ class_size = second.class_size
    /\ current_action = "None"
    /\ validate = [key \in ScoreKeys |-> "key"]
    /\ individual_output_area = NoOutput

\* the sidebar buttons 6, 7 and 8: show_view("ManageFrame", action=action)
show_view(action) ==
    /\ app = "StudentReport.py"
    /\ UNCHANGED outsideRoster
    /\ current_action' = action
    /\ last' = Managed("show_view", <<>>, 0, "none")
    /\ UNCHANGED <<students, class_size, file, validate>>

\* an edit of the entry of mark key that would leave it holding P: Tk runs
\* the validatecommand, and switches the entry's validation off when the
\* command does not return a boolean (the callback raised)
validatecommand(P, key) ==
    /\ app = "StudentReport.py"
    /\ UNCHANGED outsideRoster
    /\ current_action \in {"add", "update"}
    /\ validate[key] = "key"
    /\ IF _validate_numeric_input(P, key) = "ValueError"
       THEN /\ Cardinality({k \in ScoreKeys : validate[k] = "none"})
                  < MaxDisabled
            /\ validate' = [validate EXCEPT ![key] = "none"]
       ELSE UNCHANGED validate
    /\ last' = Managed("validatecommand", <<>>, 0, "none")
    /\ UNCHANGED <<students, class_size, file, current_action>>

\* _handle_submission without the pop of its else branch
_handle_submission_no_pop(code, name, c1, c2, c3, exam, outcome) ==
    LET appended == Append(students, Student(code, name, c1, c2, c3, exam))
        saved == save_data(appended, file, outcome)
    IN  /\ students' = appended
        /\ class_size' = saved.class_size
        /\ file' = saved.file

\* StudentApp._handle_submission
_handle_submission(code, name, c1, c2, c3, exam, outcome) ==
    LET appended == Append(students, Student(code, name, c1, c2, c3, exam))
        saved == save_data(appended, file, outcome)
    IN  /\ students' = IF saved.returned THEN appended ELSE students
        /\ class_size' = saved.class_size
        /\ file' = saved.file

\* _submit_inline_add with marks in the mark entries; the code and name
\* entries matter once int() has accepted the four marks
_submit_inline_add(marks) ==
    /\ app = "StudentReport.py"
    /\ UNCHANGED outsideRoster
    /\ current_action = "add"
    /\ Len(students) < MaxStudents
    /\ IF \E key \in ScoreKeys : ~IsInt(marks[key])
       THEN /\ UNCHANGED <<students, class_size, file>>
            /\ last' = Managed("add", <<>>, 0, "none")
       ELSE \E code \in CodeTexts, name \in NameTexts :
                IF Len(code) # 4 \/ ~isdigit(code) \/ name = <<>>
                THEN /\ UNCHANGED <<students, class_size, file>>
                     /\ last' = Managed("add", <<>>, 0, "none")
                ELSE \E outcome \in SaveOutcomes :
                         /\ _handle_submission(code, name, int(marks.c1),
                                int(marks.c2), int(marks.c3), int(marks.exam),
                                outcome)
                         /\ last' = Managed("add", <<>>, Len(students) + 1,
                                        Returned(outcome = "saved"))
    /\ UNCHANGED <<current_action, validate>>

\* _submit_inline_delete with search_term in the code entry; yes is the
\* answer to its askyesno
_submit_inline_delete(search_term, yes) ==
    /\ app = "StudentReport.py"
    /\ UNCHANGED outsideRoster
    /\ current_action = "delete"
    /\ LET results == find_student(students, search_term)
       IN  IF search_term = <<>> \/ results = <<>> \/ ~yes
           THEN /\ UNCHANGED <<students, class_size, file>>
                /\ last' = Searching(search_term,
                               Managed("delete",
                                   IF search_term = <<>> THEN <<>>
                                   ELSE results,
                                   0, "none"))
           ELSE \E outcome \in SaveOutcomes :
                    LET removed == remove(students, results[1])
                        saved == save_data(removed, file, outcome)
                    IN  /\ students' = removed
                        /\ class_size' = saved.class_size
                        /\ file' = saved.file
                        /\ last' = Searching(search_term,
                                       Managed("delete", results, results[1],
                                           Returned(saved.returned)))
    /\ UNCHANGED <<current_action, validate>>

RECURSIVE assign_marks_blank_zero(_, _, _)
\* assign_marks with int() giving 0 for an empty entry
assign_marks_blank_zero(student, marks, keys) ==
    IF keys = <<>> THEN [student |-> student, raised |-> FALSE]
    ELSE IF marks[Head(keys)] = <<>>
    THEN assign_marks_blank_zero([student EXCEPT ![Head(keys)] = 0], marks,
                                 Tail(keys))
    ELSE IF ~IsInt(marks[Head(keys)])
    THEN [student |-> student, raised |-> TRUE]
    ELSE assign_marks_blank_zero(
             [student EXCEPT ![Head(keys)] = int(marks[Head(keys)])],
             marks, Tail(keys))

RECURSIVE assign_marks(_, _, _)
\* the assignments of _submit_inline_update to the marks named in keys, in
\* that order: the student they leave, and whether an int() raised
assign_marks(student, marks, keys) ==
    IF keys = <<>> THEN [student |-> student, raised |-> FALSE]
    ELSE IF marks[Head(keys)] = <<>>
    THEN assign_marks(student, marks, Tail(keys))
    ELSE IF ~IsInt(marks[Head(keys)])
    THEN [student |-> student, raised |-> TRUE]
    ELSE assign_marks([student EXCEPT ![Head(keys)] = int(marks[Head(keys)])],
                      marks, Tail(keys))

\* the try block of _submit_inline_update up to the recalculation: the name
\* entry, then the mark entries, are assigned to student unless they are
\* empty
assign_entries(student, new_name, marks) ==
    assign_marks(IF new_name # <<>>
                 THEN [student EXCEPT !.name = new_name]
                 ELSE student,
                 marks, <<"c1", "c2", "c3", "exam">>)

\* _submit_inline_update with search_term in the code entry; the name and
\* mark entries matter once a student is found
_submit_inline_update(search_term) ==
    /\ app = "StudentReport.py"
    /\ UNCHANGED outsideRoster
    /\ current_action = "update"
    /\ LET results == find_student(students, search_term)
       IN  IF search_term = <<>> \/ results = <<>>
           THEN /\ UNCHANGED <<students, class_size, file>>
                /\ last' = Searching(search_term,
                               Managed("update", <<>>, 0, "none"))
           ELSE \E new_name \in NameTexts, marks \in Marks :
                LET marked == assign_entries(students[results[1]], new_name,
                                             marks)
                IN  IF marked.raised
                    THEN /\ students' = [students EXCEPT
                                            ![results[1]] = marked.student]
                         /\ UNCHANGED <<class_size, file>>
                         /\ last' = Searching(search_term,
                                        Managed("update", results,
                                            results[1], "none"))
                    ELSE \E outcome \in SaveOutcomes :
                         LET updated ==
                                 [students EXCEPT ![results[1]] =
                                     _recalculate_derived_data(marked.student)]
                             saved == save_data(updated, file, outcome)
                         IN  /\ students' = updated
                             /\ class_size' = saved.class_size
                             /\ file' = saved.file
                             /\ last' = Searching(search_term,
                                            Managed("update", results,
                                                results[1],
                                                Returned(saved.returned)))
    /\ UNCHANGED <<current_action, validate>>

NextRoster ==
    \/ \E action \in {"add", "delete", "update"} : show_view(action)
    \/ \E P \in KeyTexts, key \in ScoreKeys : validatecommand(P, key)
    \/ \E marks \in Marks : _submit_inline_add(marks)
    \/ \E search_term \in CodeTexts, yes \in BOOLEAN :
           _submit_inline_delete(search_term, yes)
    \/ \E search_term \in CodeTexts : _submit_inline_update(search_term)

(***************************************************************************)
(* StudentReport.py: the views of StudentApp that change no record, over a *)
(* small class                                                             *)
(***************************************************************************)
Code0042 == <<"0", "0", "4", "2">>
CodeA001 == <<"A", "0", "0", "1">>
Nan == <<"N", "a", "n">>

\* the record lines a class file of the views may hold: two students with a
\* total of 80, two with a total of 70, and two of them with the same name
SearchLines ==
    {join(<<Code0042, Ann, str(20), str(20), str(20), str(20)>>),
     join(<<CodeA001, Bob, str(20), str(20), str(20), str(20)>>),
     join(<<Code1001, Nan, str(10), str(20), str(20), str(20)>>),
     join(<<Code1002, Ann, str(10), str(20), str(20), str(20)>>)}

\* the file save_data writes for the record lines: their count, then they
FileOf(lines) == [exists |-> TRUE, lines |-> <<str(Len(lines))>> \o lines]

SearchFiles ==
    {FileOf(lines) : lines \in UNION {[1..n -> SearchLines] : n \in 0..MaxLines}}

\* what the user may have put in the search entry: nothing, a part of a
\* code, two codes, one of them after a blank, a part of two names in
\* capitals and in small letters, and a text no record holds
SearchTexts ==
    {<<>>, <<"4", "2">>, Code0042, CodeA001, <<" ">> \o Code0042,
     <<"A", "N">>, <<"a", "n">>, <<"z", "z">>}

\* history record of _handle_search
Searched(search_term, results) ==
    [op |-> "_handle_search", search_term |-> search_term,
     results |-> results]

InitSearchFrame ==
    /\ file \in SearchFiles
    /\ LET first == load_data(file, 0)
           second == load_data(file, first.class_size)
       IN  /\ students = second.students
           /\ class_size = second.class_size
    /\ current_action = "None"
    /\ validate = [key \in ScoreKeys |-> "key"]
    /\ individual_output_area = NoOutput

\* SearchFrame._handle_search with search_term in the search entry
_handle_search(search_term) ==
    /\ app = "StudentApp"
    /\ UNCHANGED outsideSearch
    /\ LET results == find_student(students, search_term)
       IN  /\ individual_output_area' =
                  IF results = <<>>
                  THEN Output("No student found matching the search term.",
                              <<>>)
                  ELSE Output("", [i \in 1..Len(results) |->
                                      students[results[i]]])
           /\ last' = Searched(search_term, results)

\* ViewAllFrame._handle_sort_view with key chosen in the option menu and
\* ascending in the radio buttons
_handle_sort_view(key, ascending) ==
    /\ app = "StudentApp"
    /\ UNCHANGED <<app, quizVars, mainVars, genVars, tries, wrongs, class_size,
                   file, current_action, validate, individual_output_area,
                   jokeVars>>
    /\ students' = sort_records(students, key, ascending)
    /\ last' = [op |-> "_handle_sort_view", key |-> key,
                ascending |-> ascending]

\* StudentApp._handle_extremes_sidebar: ExtremesFrame.refresh_data shows
\* what find_extremes returns
_handle_extremes_sidebar(highest) ==
    /\ app = "StudentApp"
    /\ UNCHANGED outsideSearch
    /\ UNCHANGED individual_output_area
    /\ last' = [op |-> "_handle_extremes_sidebar", highest |-> highest,
                returned |-> find_extremes(students, highest)]

NextSearch ==
    \/ \E search_term \in SearchTexts : _handle_search(search_term)
    \/ \E key \in {"name", "total_score", "overall_percentage"},
          ascending \in BOOLEAN : _handle_sort_view(key, ascending)
    \/ \E highest \in BOOLEAN : _handle_extremes_sidebar(highest)

(***************************************************************************)
(* StudentReport.py: DataManager on its own, over the files it may find    *)
(***************************************************************************)
\* the lines a class file may hold after its first: a record as save_data
\* writes it, a line of two fields, a record whose exam mark is not a
\* number, a record with a mark written with a leading zero and one written
\* after a blank, and a record with marks above 20 and above 100
DataLines ==
    {join(<<Code1001, Ann, str(10), str(20), str(20), str(20)>>),
     join(<<Code1002, Bob>>),
     join(<<Code1002, Bob, str(20), str(20), str(20), <<"x">>>>),
     join(<<Code1002, Bob, <<"0", "7">>, <<" ", "2", "0">>, str(20), str(20)>>),
     join(<<Code1002, Bob, str(25), str(20), str(20), str(101)>>)}

\* the files at STUDENT_FILE_PATH: none, the damaged one, and the files that
\* declare the number of their lines
DataFiles ==
    {NoFile, DamagedFile}
        \cup {FileOf(lines) :
                  lines \in UNION {[1..n -> DataLines] : n \in 0..MaxLines}}

\* history record of a call of load_data or save_data: the call before it
\* and, of save_data, the value returned
Called(op, after, returned) ==
    [op |-> op, after |-> after, returned |-> returned]

\* DataManager.__init__ before its calls of load_data
InitDataManager ==
    /\ file \in DataFiles
    /\ students = <<>>
    /\ class_size = 0
    /\ current_action = "None"
    /\ validate = [key \in ScoreKeys |-> "key"]
    /\ individual_output_area = NoOutput

\* a call of DataManager.load_data
call_load_data ==
    /\ app = "DataManager"
    /\ UNCHANGED outsideData
    /\ LET loaded == load_data(file, class_size)
       IN  /\ students' = loaded.students
           /\ class_size' = loaded.class_size
    /\ last' = Called("load_data", last.op, "none")
    /\ UNCHANGED file

\* a call of DataManager.save_data
call_save_data(outcome) ==
    /\ app = "DataManager"
    /\ UNCHANGED outsideData
    /\ LET saved == save_data(students, file, outcome)
       IN  /\ class_size' = saved.class_size
           /\ file' = saved.file
           /\ last' = Called("save_data", last.op, Returned(saved.returned))
    /\ UNCHANGED students

\* the names _submit_inline_add passes on: any text that is not empty, such
\* as one that holds a comma
SubmittedNames == {<<"Z", "o">>, <<"Z", ",", "o">>}

\* a call of StudentApp._handle_submission, once the roster is loaded, with
\* a code, a name and marks that _submit_inline_add accepts
call_handle_submission(name, outcome) ==
    /\ app = "DataManager"
    /\ UNCHANGED outsideData
    /\ last.op # "init"
    /\ Len(students) < MaxStudents
    /\ _handle_submission(Code1002, name, 20, 20, 20, 20, outcome)
    /\ last' = Called("_handle_submission", last.op,
                      Returned(outcome = "saved"))

NextData ==
    \/ call_load_data
    \/ \E outcome \in SaveOutcomes : call_save_data(outcome)
    \/ \E name \in SubmittedNames, outcome \in SaveOutcomes :
           call_handle_submission(name, outcome)

(***************************************************************************)
(* StudentReport.py: one Student on its own, over the marks it may hold    *)
(***************************************************************************)
\* the coursework marks and the exam marks a Student is given
CourseworkMarks == {0, 20}
ExamMarks == 0..100

\* Student.__init__ for a student of the class
InitStudent ==
    /\ \E c1 \in CourseworkMarks, c2 \in CourseworkMarks,
          c3 \in CourseworkMarks, exam \in ExamMarks :
           students = <<Student(Code1001, Ann, c1, c2, c3, exam)>>
    /\ class_size = 1
    /\ file = NoFile
    /\ current_action = "None"
    /\ validate = [key \in ScoreKeys |-> "key"]
    /\ individual_output_area = NoOutput

\* an assignment to the mark key of the student, followed by
\* _recalculate_derived_data, as _submit_inline_update does them
set_mark(key, value) ==
    /\ app = "Student"
    /\ UNCHANGED outsideData
    /\ students' = <<_recalculate_derived_data(
                        [students[1] EXCEPT ![key] = value])>>
    /\ last' = Called("set_mark", last.op, "none")
    /\ UNCHANGED <<class_size, file>>

NextStudent ==
    \/ \E key \in {"c1", "c2", "c3"}, value \in CourseworkMarks :
           set_mark(key, value)
    \/ \E value \in ExamMarks : set_mark("exam", value)

(***************************************************************************)
(* Alexa.py: the joke teller.  The handlers of the buttons run on the UI   *)
(* thread, one at a time; a narration thread (_tts_worker) and a waiter    *)
(* thread (wait_and_laugh) take their steps in between, in any order.      *)
(* pyttsx3.init() is taken to succeed, so SpeechManager.engine is set.     *)
(***************************************************************************)
InitNoJokes ==
    /\ placed = {}
    /\ current_joke = None
    /\ threads = <<>>
    /\ tts_thread = None

\* JokeController.__init__: MenuFrame, with its PLAY button, is raised
InitJokeController ==
    /\ placed = {"btn_play"}
    /\ current_joke = None
    /\ threads = <<>>
    /\ tts_thread = None

\* threading.Thread(target=target, ...) once start() has returned: pc is
\* where the thread is, text what a narration speaks, joined the thread a
\* waiter joins, and narration (history) the thread that show_punchline
\* started together with the waiter
Thread(target, text, narration) ==
    [target |-> target, pc |-> "started", text |-> text, joined |-> None,
     narration |-> narration]

\* generate_and_play_tts(text) followed by the threads in more, which the
\* handler starts after it.  stop_tts, which it calls first, stops no
\* thread: it calls engine.stop() when the engine is in its loop, and the
\* thread in runAndWait goes on to its end as it would anyway; its test of
\* tts_thread.is_alive() guards a pass
generate_and_play_tts(text, more) ==
    /\ threads' = threads \o <<Thread("_tts_worker", text, None)>> \o more
    /\ tts_thread' = Len(threads) + 1

\* JokeFrame.next_joke with joke what get_random_joke returns: None when no
\* joke was loaded
next_joke(joke) ==
    /\ current_joke' = joke
    /\ IF joke = None
       THEN /\ placed' = {}
            /\ UNCHANGED <<threads, tts_thread>>
       ELSE /\ Len(threads) < MaxThreads
            /\ generate_and_play_tts("setup", <<>>)
            /\ placed' = {"punchline_button"}

\* MenuFrame.start_joke, the command of PLAY: next_joke, then JokeFrame is
\* raised over MenuFrame
start_joke(joke) ==
    /\ app = "Alexa.py"
    /\ UNCHANGED outsideJoke
    /\ "btn_play" \in placed
    /\ next_joke(joke)
    /\ last' = [op |-> "start_joke"]

\* the command of Next Joke
click_next_joke(joke) ==
    /\ app = "Alexa.py"
    /\ UNCHANGED outsideJoke
    /\ "next_button" \in placed
    /\ next_joke(joke)
    /\ last' = [op |-> "next_joke"]

\* JokeFrame.show_punchline, the command of Show Punchline: the narration
\* of the punchline is started, then the waiter
show_punchline ==
    /\ app = "Alexa.py"
    /\ UNCHANGED outsideJoke
    /\ "punchline_button" \in placed
    /\ UNCHANGED current_joke
    /\ IF current_joke = None
       THEN /\ placed' = {}
            /\ UNCHANGED <<threads, tts_thread>>
       ELSE /\ Len(threads) + 2 <= MaxThreads
            /\ generate_and_play_tts(
                   "punchline",
                   <<Thread("wait_and_laugh", "", Len(threads) + 1)>>)
            /\ placed' = {"next_button"}
    /\ last' = [op |-> "show_punchline"]

\* one step of narration thread i.  gTTS(...) and tts.save(tts_temp_file)
\* write the temporary file unless they raise; play_short_sfx then loads
\* the file into a Sound and hands it to a channel; after an exception the
\* thread speaks through the engine (say, runAndWait)
_tts_worker(i) ==
    /\ app = "Alexa.py"
    /\ UNCHANGED outsideJoke
    /\ UNCHANGED <<placed, current_joke, tts_thread>>
    /\ i \in 1..Len(threads)
    /\ threads[i].target = "_tts_worker"
    /\ \E pc \in {"save", "play_short_sfx", "runAndWait", "dead"} :
           /\ \/ threads[i].pc = "started" /\ pc \in {"save", "runAndWait"}
              \/ threads[i].pc = "save"
                     /\ pc \in {"play_short_sfx", "runAndWait"}
              \/ threads[i].pc = "play_short_sfx" /\ pc = "dead"
              \/ threads[i].pc = "runAndWait" /\ pc = "dead"
           /\ threads' = [threads EXCEPT ![i].pc = pc]
    /\ last' = [op |-> "_tts_worker"]

\* one step of waiter thread i: it reads speech_manager.tts_thread when it
\* comes to run and joins that thread; when that thread is dead it calls
\* play_laugh_sfx, sleeps and ends
wait_and_laugh(i) ==
    /\ app = "Alexa.py"
    /\ UNCHANGED outsideJoke
    /\ UNCHANGED <<placed, current_joke, tts_thread>>
    /\ i \in 1..Len(threads)
    /\ threads[i].target = "wait_and_laugh"
    /\ \/ /\ threads[i].pc = "started"
          /\ threads' = [threads EXCEPT ![i].pc = "join",
                                        ![i].joined = tts_thread]
          /\ last' = [op |-> "join"]
       \/ /\ threads[i].pc = "join"
          /\ threads[threads[i].joined].pc = "dead"
          /\ threads' = [threads EXCEPT ![i].pc = "sleep"]
          /\ last' = [op |-> "play_laugh_sfx",
                      narration |-> threads[threads[i].narration].pc]
       \/ /\ threads[i].pc = "sleep"
          /\ threads' = [threads EXCEPT ![i].pc = "dead"]
          /\ last' = [op |-> "sleep"]

NextJoke ==
    \/ \E joke \in {None, 1} : start_joke(joke)
    \/ \E joke \in {None, 1} : click_next_joke(joke)
    \/ show_punchline
    \/ \E i \in 1..MaxThreads : _tts_worker(i)
    \/ \E i \in 1..MaxThreads : wait_and_laugh(i)

(***************************************************************************)
(* Specifications                                                          *)
(***************************************************************************)
InitIdleQuizzes ==
    InitQuizFrame /\ InitMainApp /\ InitNoGen /\ InitHistory /\ InitNoJokes

InitAll == InitIdleQuizzes /\ InitNoRoster

\* quiz.py
InitQuiz == app = "quiz.py" /\ InitAll

SpecQuiz == InitQuiz /\ [][NextQuiz]_vars

\* quiz.py with Tk running every callback that after() has scheduled: a
\* pending update_timer_display, or next_question, is run in the end
SpecQuizFair ==
    SpecQuiz /\ WF_vars(update_timer_display) /\ WF_vars(next_question)

\* main.py
InitMain == app = "main.py" /\ InitAll

SpecMain == InitMain /\ [][NextMain]_vars

\* either quiz
InitQuizzes == app \in {"quiz.py", "main.py"} /\ InitAll

NextQuizzes ==
    \/ ClickPlay
    \/ ClickBack
    \/ \E level \in Levels : start_game(level)
    \/ update_timer_display
    \/ next_question
    \/ \E user_input \in Typed(current_answer) : submit_answer(user_input)
    \/ show_difficulty_select_page
    \/ show_main_menu
    \/ \E level \in Levels : start_quiz(level)
    \/ \E entry_text \in EntryTexts : QuizPage_check_answer(entry_text)
    \/ \E yes \in BOOLEAN : confirm_quit(yes)

SpecQuizzes == InitQuizzes /\ [][NextQuizzes]_vars

\* generate_problem on its own
InitGen == app = "generate_problem" /\ InitAll

NextGen == DrawProblem \/ GenerateProblem

SpecGen == InitGen /\ [][NextGen]_vars

\* StudentReport.py
InitRoster == app = "StudentReport.py" /\ InitIdleQuizzes /\ InitStudentApp

SpecRoster == InitRoster /\ [][NextRoster]_vars

\* StudentReport.py: DataManager on its own
InitData == app = "DataManager" /\ InitIdleQuizzes /\ InitDataManager

SpecData == InitData /\ [][NextData]_vars

\* StudentReport.py: one Student on its own
InitGrade == app = "Student" /\ InitIdleQuizzes /\ InitStudent

SpecGrade == InitGrade /\ [][NextStudent]_vars

\* StudentReport.py: the search view
InitSearch == app = "StudentApp" /\ InitIdleQuizzes /\ InitSearchFrame

SpecSearch == InitSearch /\ [][NextSearch]_vars

\* Alexa.py
InitJoke ==
    /\ app = "Alexa.py"
    /\ InitQuizFrame /\ InitMainApp /\ InitNoGen /\ InitHistory
    /\ InitNoRoster
    /\ InitJokeController

SpecJoke == InitJoke /\ [][NextJoke]_vars

(***************************************************************************)
(* Claims                                                                  *)
(***************************************************************************)
\* a step that checks an integer answer against the posed problem in quiz.py
IntegerAnswer == app = "quiz.py" /\ tries' = tries + 1

\* a step that submits a second wrong integer answer on the posed problem
SecondWrong ==
    /\ last'.op \in {"submit_answer", "check_answer"}
    /\ last'.isint /\ ~last'.right
    /\ wrongs = 1

\* a step that submits text int() rejects
InvalidSubmit ==
    /\ last'.op \in {"submit_answer", "check_answer"}
    /\ ~last'.isint

\* C1 (as claimed): in quiz.py a right answer given as the first attempt on
\* the posed problem adds exactly 10 to the score, one given as the second
\* attempt adds exactly 5, and the score grows by nothing else.
C1_Original ==
    [][/\ (IntegerAnswer /\ last'.right /\ tries' = 1) => score' = score + 10
       /\ (IntegerAnswer /\ last'.right /\ tries' = 2) => score' = score + 5
       /\ (app = "quiz.py" /\ score' > score) =>
              IntegerAnswer /\ last'.right /\ tries' \in {1, 2}]_vars

\* C2 (as claimed): in both quizzes the second wrong integer answer on a
\* posed problem takes exactly one life, counts exactly one question, leaves
\* the score alone and advances the quiz.
C2_Original ==
    [][SecondWrong =>
        /\ app = "quiz.py" =>
              /\ lives' = lives - 1
              /\ questions_attempted' = questions_attempted + 1
              /\ score' = score
              /\ next_pending' = next_pending + 1
        /\ app = "main.py" =>
              /\ app_lives' = app_lives - 1
              /\ question_index' = question_index + 1
              /\ app_score' = app_score]_vars

\* C2 (amended): as claimed, except that in quiz.py, when the life lost is
\* the last one, show_results runs in the same handler: it is given 0 lives
\* and the incremented question count, and it resets lives to MAX_LIVES and
\* questions-attempted to 0.
C2_SecondWrongAnswer ==
    [][SecondWrong =>
        /\ app = "quiz.py" =>
              /\ score' = score
              /\ next_pending' = next_pending + 1
              /\ IF lives > 1
                 THEN /\ lives' = lives - 1
                      /\ questions_attempted' = questions_attempted + 1
                      /\ ~last'.results
                 ELSE /\ last'.results
                      /\ shown'.lives = 0
                      /\ shown'.questions_attempted = questions_attempted + 1
                      /\ lives' = MAX_LIVES
                      /\ questions_attempted' = 0
        /\ app = "main.py" =>
              /\ app_lives' = app_lives - 1
              /\ question_index' = question_index + 1
              /\ app_score' = app_score]_vars

\* the last life of quiz.py has just been lost to a second wrong answer
C2_Witness ==
    /\ app = "quiz.py"
    /\ last.op = "submit_answer" /\ last.isint /\ ~last.right
    /\ wrongs = 2
    /\ last.results
    /\ lives = MAX_LIVES /\ questions_attempted = 0

\* C3 (as claimed): in both quizzes the results are shown only with no life
\* left or with the tenth question attempted, and the quiz never goes on
\* once either holds.
C3_Original ==
    [][/\ (app = "quiz.py" /\ last'.results) =>
              \/ shown'.lives = 0
              \/ shown'.questions_attempted = max_questions
       /\ (app = "main.py" /\ last'.results) =>
              \/ app_lives' = 0
              \/ question_index' = MAX_QUESTIONS
       /\ current_page' = "QuizPage" =>
              app_lives' > 0 /\ question_index' < MAX_QUESTIONS
       /\ lives' > 0
       /\ questions_attempted' >= max_questions => next_pending' > 0]_vars

\* C3 (amended): quiz.py shows the results only with no life left or with at
\* least ten questions counted; a life count of 0 is shown at once, and
\* while ten questions are counted a next_question callback is pending,
\* which shows them.  main.py shows them only with no life left, with the
\* tenth question answered, or when the user confirms Quit Game, and it
\* never stays on the quiz page once a life count of 0 or question ten is
\* reached.
C3_ResultsWhenDue ==
    [][/\ (app = "quiz.py" /\ last'.results) =>
              \/ shown'.lives = 0
              \/ shown'.questions_attempted >= max_questions
       /\ (app = "main.py" /\ last'.results) =>
              \/ app_lives' = 0
              \/ question_index' = MAX_QUESTIONS
              \/ last'.op = "confirm_quit"
       /\ current_page' = "QuizPage" =>
              app_lives' > 0 /\ question_index' < MAX_QUESTIONS
       /\ lives' > 0
       /\ questions_attempted' >= max_questions => next_pending' > 0]_vars

\* main.py shows the results of a quiz the user has quit
C3_Witness ==
    /\ app = "main.py"
    /\ last.op = "confirm_quit" /\ last.results
    /\ current_page = "ResultsPage"
    /\ app_lives > 0 /\ question_index < MAX_QUESTIONS

\* C4 (as claimed): in quiz.py, once show_results has run and until a
\* difficulty is chosen again, no problem is posed, no timer is running, and
\* score, lives and questions-attempted stay as they are.
C4_Original ==
    [][(app = "quiz.py" /\ finished /\ finished') =>
        /\ ~last'.posed
        /\ after_id' # "scheduled"
        /\ UNCHANGED <<score, lives, questions_attempted>>]_vars

\* C5: in both quizzes a submission that int() rejects leaves score, lives,
\* the attempts on the problem, the questions counted and the problem as
\* they are, and schedules no next question.
C5_InvalidInputChangesNothing ==
    [][InvalidSubmit =>
        /\ UNCHANGED <<score, lives, attempts_remaining, questions_attempted,
                       current_answer, question_label, next_pending, frame>>
        /\ UNCHANGED <<app_score, app_lives, attempts, question_index,
                       quiz_data, current_page>>
        /\ ~last'.results /\ ~last'.posed]_vars

\* text that is no integer has been submitted on a problem with one wrong
\* answer behind it
C5_Witness ==
    /\ last.op \in {"submit_answer", "check_answer"}
    /\ ~last.isint
    /\ last.verdict = "invalid"
    /\ wrongs = 1

\* C6 (as claimed): in quiz.py a timeout takes one life and counts one
\* question (or ends the quiz on the last life).
C6_Original ==
    [][(app = "quiz.py" /\ last'.op = "timeout") =>
        \/ lives' = lives - 1 /\ questions_attempted' = questions_attempted + 1
        \/ last'.results]_vars

\* C7: for every tier and every draw, generate_problem stores the sum or the
\* difference of the operands and operator of the string it returns, both
\* operands lie in the tier's range, and a difference is never negative.
C7_GeneratedProblem ==
    generated # NoProblem =>
        LET lo == DIFFICULTY_SETTINGS[draw.level][1]
            hi == DIFFICULTY_SETTINGS[draw.level][2]
        IN  /\ generated.operation = draw.op
            /\ {generated.num1, generated.num2} = {draw.n1, draw.n2}
            /\ generated.num1 \in lo..hi /\ generated.num2 \in lo..hi
            /\ generated.operation = "+" =>
                   generated.current_answer = generated.num1 + generated.num2
            /\ generated.operation = "-" =>
                   /\ generated.current_answer
                          = generated.num1 - generated.num2
                   /\ generated.current_answer >= 0

\* a subtraction whose first draw is the smaller one has been generated
C7_Witness ==
    /\ generated # NoProblem
    /\ draw.op = "-" /\ draw.n1 < draw.n2
    /\ generated.num1 = draw.n2

\* C8 (as claimed): every question start_quiz stores holds the sum or the
\* difference of its two operands, and a subtraction has its larger operand
\* first and a non-negative answer.
C8_Original ==
    \A i \in 1..Len(quiz_data) :
        LET q == quiz_data[i]
        IN  /\ q.q_str[2] = "+" => q.answer = q.q_str[1] + q.q_str[3]
            /\ q.q_str[2] = "-" =>
                   /\ q.answer = q.q_str[1] - q.q_str[3]
                   /\ q.q_str[1] >= q.q_str[3]
                   /\ q.answer >= 0

\* the rank the claim gives a score out of max_questions * 10
ClaimedRank(s) ==
    CASE s * 100 >= 90 * (max_questions * 10) -> "A+"
      [] s * 100 < 90 * (max_questions * 10)
         /\ s * 100 >= 80 * (max_questions * 10) -> "A"
      [] s * 100 < 80 * (max_questions * 10)
         /\ s * 100 >= 70 * (max_questions * 10) -> "B"
      [] s * 100 < 70 * (max_questions * 10)
         /\ s * 100 >= 60 * (max_questions * 10) -> "C"
      [] OTHER -> "F"

\* C9 (as claimed): the rank shown at the end is A+ from 90 percent, A from
\* 80, B from 70, C from 60 and F below, in quiz.py and in main.py.
C9_Original ==
    /\ (app = "quiz.py" /\ last.results) => shown.rank = ClaimedRank(shown.score)
    /\ (app = "main.py" /\ current_page = "ResultsPage") =>
           rank = ClaimedRank(app_score)

\* C9 (amended): quiz.py ranks as claimed; main.py ranks A+ from 90, A from
\* 80 and B from 70 as claimed, and gives C to every score below 70: it has
\* no F.
C9_RankShown ==
    /\ (app = "quiz.py" /\ last.results) => shown.rank = ClaimedRank(shown.score)
    /\ (app = "main.py" /\ current_page = "ResultsPage") =>
           rank = IF app_score * 100 >= 70 * (MAX_QUESTIONS * 10)
                  THEN ClaimedRank(app_score)
                  ELSE "C"

\* main.py shows rank C for 50 points after ten questions
C9_Witness ==
    /\ app = "main.py"
    /\ current_page = "ResultsPage"
    /\ question_index = MAX_QUESTIONS
    /\ app_score = 50
    /\ rank = "C"

\* C10 (as claimed): in every state the student manager reaches through load,
\* add, update and delete, every Student of the roster has coursework_total
\* = c1 + c2 + c3, total_score = coursework_total + exam and the grade of
\* its current marks.
C10_Original ==
    app = "StudentReport.py" =>
        \A i \in 1..Len(students) :
            LET s == students[i]
            IN  /\ s.coursework_total = s.c1 + s.c2 + s.c3
                /\ s.total_score = s.coursework_total + s.exam
                /\ s.grade = _calculate_grade((s.c1 + s.c2 + s.c3 + s.exam) * 100)


\* C11: an add whose save_data call returns False leaves the roster exactly
\* the sequence it was before the add, the same students in the same order,
\* and leaves the file as it was: the append is rolled back.
C11_FailedAddRolledBack ==
    [][(app = "StudentReport.py" /\ last'.op = "add"
            /\ last'.returned = "False")
        => /\ students' = students
           /\ file' = file]_vars

\* an add has just failed to save, with a student in the roster
C11_Witness ==
    /\ app = "StudentReport.py"
    /\ last.op = "add"
    /\ last.returned = "False"
    /\ Len(students) >= 1

\* C12 (as claimed): a delete whose save_data call returns False leaves the
\* record in the roster, and an update whose save_data call returns False
\* leaves the name and the marks of its student as they were before it.
C12_Original ==
    [][(app = "StudentReport.py" /\ last'.returned = "False")
        => /\ last'.op = "delete" => students' = students
           /\ last'.op = "update" =>
                  \A key \in {"name", "c1", "c2", "c3", "exam"} :
                      students'[last'.target][key]
                          = students[last'.target][key]]_vars

\* the positions C13 has find return: the students whose code equals term
\* or whose name contains it, both compared ignoring case, in roster order
ClaimedFind(sts, term) ==
    SelectSeq([i \in 1..Len(sts) |-> i],
              LAMBDA i : lower(sts[i].code) = lower(term)
                         \/ Contains(lower(term), lower(sts[i].name)))

\* C13 (as claimed): find(term) returns, in roster order, exactly the
\* students whose code equals term or whose name contains term, both
\* compared ignoring case, and a term that is only a part of a code does not
\* match on the code.
C13_Original ==
    (app = "StudentApp" /\ last.op = "_handle_search")
        => last.results = ClaimedFind(students, last.search_term)

\* line has exactly six comma-separated fields for load_data
SixFields(line) == Len(split(strip(line))) = 6

\* the six-field lines of file f after its first line, in order
RecordLines(f) ==
    IF f.exists /\ f.lines # <<>> THEN SelectSeq(Tail(f.lines), SixFields)
    ELSE <<>>

\* the four score fields of a six-field line are integers for int()
IntegerScores(line) == \A i \in 3..6 : IsInt(split(strip(line))[i])

\* a six-field line as save_data writes one: no blanks around it, and each
\* score the decimal numeral str() gives its value
AsWritten(line) ==
    /\ line = strip(line)
    /\ \A i \in 3..6 :
           LET field == split(line)[i]
           IN  IsInt(field) /\ field = str(int(field))

Assigned(student, new_name, marks) ==
    LET marked == assign_entries(student, new_name, marks)
    IN  IF marked.raised THEN marked.student
        ELSE _recalculate_derived_data(marked.student)

\* C15: whatever the name and mark entries hold, an update leaves the code
\* of its student as it was, and the name, c1, c2, c3 and exam whose entry
\* is empty as they were; and an update that found its student leaves the
\* roster as long as it was and every other student as it was, in its place.
C15_UpdateFrame ==
    /\ [](app = "StudentReport.py" =>
             \A i \in 1..Len(students), new_name \in NameTexts,
                marks \in Marks :
                 LET assigned == Assigned(students[i], new_name, marks)
                 IN  /\ assigned.code = students[i].code
                     /\ new_name = <<>> => assigned.name = students[i].name
                     /\ \A key \in ScoreKeys :
                            marks[key] = <<>>
                            => assigned[key] = students[i][key])
    /\ [][(app = "StudentReport.py" /\ last'.op = "update"
                /\ last'.target > 0)
            => LET i == last'.target
               IN  /\ Len(students') = Len(students)
                   /\ \A j \in 1..Len(students) :
                          j # i => students'[j] = students[j]
                   /\ \E new_name \in NameTexts, marks \in Marks :
                          students'[i]
                              = Assigned(students[i], new_name, marks)
           ]_vars

\* an update has just given the first of two students a new name and left
\* its first mark alone
C15_Witness ==
    /\ app = "StudentReport.py"
    /\ last.op = "update"
    /\ last.target = 1
    /\ last.returned = "True"
    /\ Len(students) = 2
    /\ students[1].name = <<"Z", "o">>
    /\ students[1].c1 = 10

\* C16: a delete the user confirms removes exactly one record, the first
\* student in roster order of those its find_student call returned, leaves
\* every other record in its original relative order and then calls
\* save_data, which writes the roster left when it succeeds; a delete whose
\* find_student call returned nothing, or that the user declines, removes
\* nothing and does not call save_data.
C16_DeleteFirstMatch ==
    [][(app = "StudentReport.py" /\ last'.op = "delete")
        => /\ \/ last'.results = <<>>
              \/ \E search_term \in CodeTexts :
                     last'.results = find_student(students, search_term)
           /\ IF last'.results = <<>> \/ last'.target = 0
              THEN /\ students' = students
                   /\ file' = file
                   /\ last'.returned = "none"
              ELSE LET t == last'.target
                   IN  /\ \A k \in 1..Len(last'.results) :
                              t <= last'.results[k]
                       /\ t = last'.results[1]
                       /\ Len(students') = Len(students) - 1
                       /\ \A j \in 1..Len(students') :
                              students'[j] = students[IF j < t THEN j
                                                      ELSE j + 1]
                       /\ last'.returned \in {"True", "False"}
                       /\ last'.returned = "True"
                          => file'.lines
                                 = <<str(Len(students'))>>
                                    \o [j \in 1..Len(students') |->
                                           to_file_format(students'[j])]
       ]_vars

\* a delete whose term matched both students has just removed the first of
\* them and saved the second
C16_Witness ==
    /\ app = "StudentReport.py"
    /\ last.op = "delete"
    /\ last.results = <<1, 2>>
    /\ last.target = 1
    /\ last.returned = "True"
    /\ Len(students) = 1
    /\ students[1].name = <<"Z", "o">>
    /\ Len(file.lines) = 2

\* C17 (as claimed): no two students of the roster share a code, in every
\* state the student manager reaches from a class file of distinct codes
\* through add, update and delete.
C17_Original ==
    app = "StudentReport.py" =>
        \A i, j \in 1..Len(students) :
            i # j => students[i].code # students[j].code

\* C18 (as claimed): every Student that load_data places in the roster has
\* each coursework mark within 0..20 and its exam mark within 0..100.
C18_Original ==
    app = "DataManager" =>
        \A i \in 1..Len(students) :
            /\ \A key \in {"c1", "c2", "c3"} : students[i][key] \in 0..20
            /\ students[i].exam \in 0..100

\* the grade C19 gives an overall_percentage: A from 70, B from 60 up to 70,
\* C from 50 up to 60, D from 40 up to 50, and F below 40
ClaimedGrade(overall_percentage) ==
    IF overall_percentage >= Percent(70) THEN "A"
    ELSE IF overall_percentage >= Percent(60) THEN "B"
    ELSE IF overall_percentage >= Percent(50) THEN "C"
    ELSE IF overall_percentage >= Percent(40) THEN "D"
    ELSE "F"

\* C19 (as claimed): after a Student is built, and after any of its marks is
\* changed and the derived data recomputed, its grade is the grade of the
\* bands for percentage = total / 160 x 100, total the sum of its four marks.
C19_Original ==
    app = "Student" =>
        LET s == students[1]
        IN  s.grade = ClaimedGrade((s.c1 + s.c2 + s.c3 + s.exam) * 100)

\* C20 (as claimed): load_data leaves in the roster, in file order, exactly
\* one Student for each line after the first that has exactly six
\* comma-separated fields, with the code and the name of that line.
C20_Original ==
    (app = "DataManager" /\ last.op = "load_data")
        => /\ Len(students) = Len(RecordLines(file))
           /\ \A i \in 1..Len(students) :
                  LET parts == split(strip(RecordLines(file)[i]))
                  IN  /\ students[i].code = parts[1]
                      /\ students[i].name = parts[2]

\* C30 (as claimed): a delete or an update whose search term is empty or
\* made of blanks only removes and changes no record of the roster.
C30_Original ==
    [][(app = "StudentReport.py" /\ last'.op \in {"delete", "update"}
            /\ last'.blank)
        => students' = students]_vars

\* C27 (as claimed): after every roster operation of the student manager,
\* class_size is the number of students in the roster.
C27_Original ==
    app = "StudentReport.py" => class_size = Len(students)

\* the letter grades from worst to best
GradeRank(grade) ==
    CASE grade = "F" -> 0 [] grade = "D" -> 1 [] grade = "C" -> 2
      [] grade = "B" -> 3 [] grade = "A" -> 4

\* C28 (as claimed): the grade of a Student is never better than the grade
\* _calculate_grade gives a larger total of 0..160, and it is D or better
\* when the percentage of the Student is at least 40.
C28_Original ==
    app = "Student" =>
        LET s == students[1]
        IN  /\ s.total_score = s.c1 + s.c2 + s.c3 + s.exam
            /\ \A total \in s.total_score..TOTAL_MAX_MARKS :
                   GradeRank(s.grade)
                       <= GradeRank(_calculate_grade(total * 100))
            /\ s.total_score * 100 >= Percent(40)
               => GradeRank(s.grade) >= 1

\* C25 (as claimed): in every state quiz.py reaches, score is at most
\* 10 x max_questions, questions-attempted is at most max_questions and
\* attempts-remaining is within 0..2.
C25_Original ==
    app = "quiz.py" =>
        /\ score <= 10 * max_questions
        /\ questions_attempted <= max_questions
        /\ attempts_remaining \in 0..2

\* C26 (as claimed, for a user who submits nothing more): in quiz.py, with
\* the timer callbacks firing, a started quiz shows its results in the end,
\* unless the user submits an answer or leaves the quiz before it does.
C26_Original ==
    (app = "quiz.py" /\ last.op = "start_game")
        ~> (finished \/ last.op \in {"submit_answer", "show_frame"})

\* the code, the name and the four marks of each student of sts
RawFields(sts) ==
    [i \in 1..Len(sts) |->
        <<sts[i].code, sts[i].name, sts[i].c1, sts[i].c2, sts[i].c3,
          sts[i].exam>>]

\* C29 (as claimed): load_data after a successful save gives the roster that
\* was saved, the same students in the same order with the same code, name
\* and four marks, whatever name add accepted.
C29_Original ==
    [][(/\ app = "DataManager"
        /\ last.op = "_handle_submission"
        /\ last.returned = "True"
        /\ last'.op = "load_data")
        => RawFields(students') = RawFields(students)]_vars

\* the sort key of student under key_attr, as a value that = compares
KeyOf(student, key_attr) ==
    IF key_attr = "name" THEN student.name ELSE student[key_attr]

\* C21: sorting the roster yields a permutation of it, ordered by the key
\* in the chosen direction, in which students of equal key keep the
\* relative order they had before, ascending and descending alike
C21_StableSort ==
    [][(app = "StudentApp" /\ last'.op = "_handle_sort_view") =>
          \E p \in Permutations(1..Len(students)) :
              /\ Len(students') = Len(students)
              /\ \A i \in 1..Len(students) : students'[i] = students[p[i]]
              /\ \A i, j \in 1..Len(students) : i < j =>
                     /\ IF last'.ascending
                        THEN ~key_lt(last'.key, students'[j], students'[i])
                        ELSE ~key_lt(last'.key, students'[i], students'[j])
                     /\ KeyOf(students'[i], last'.key)
                            = KeyOf(students'[j], last'.key)
                        => p[i] < p[j]]_vars

\* C21 witness: a descending sort by total has left two different students
\* of the same total on the roster
C21_Witness ==
    /\ app = "StudentApp"
    /\ last.op = "_handle_sort_view"
    /\ last.key = "total_score"
    /\ ~last.ascending
    /\ Len(students) = 2
    /\ students[1].total_score = students[2].total_score
    /\ students[1].code # students[2].code

\* C22: the highest and lowest views show a student of the maximum and of
\* the minimum total, the first such student of the roster on a tie, and
\* nothing for an empty roster
C22_FirstExtreme ==
    (app = "StudentApp" /\ last.op = "_handle_extremes_sidebar") =>
        IF students = <<>> THEN last.returned = 0
        ELSE /\ last.returned \in 1..Len(students)
             /\ \A j \in 1..Len(students) :
                    IF last.highest
                    THEN students[j].total_score
                             <= students[last.returned].total_score
                    ELSE students[j].total_score
                             >= students[last.returned].total_score
             /\ \A j \in 1..(last.returned - 1) :
                    students[j].total_score
                        # students[last.returned].total_score

\* C22 witness: the highest view over two different students of the same
\* total has shown the first
C22_Witness ==
    /\ app = "StudentApp"
    /\ last.op = "_handle_extremes_sidebar"
    /\ last.highest
    /\ Len(students) = 2
    /\ students[1].total_score = students[2].total_score
    /\ students[1].code # students[2].code
    /\ last.returned = 1

\* the narration threads that are writing or loading the temporary file
UsingFile ==
    {i \in 1..Len(threads) :
         /\ threads[i].target = "_tts_worker"
         /\ threads[i].pc \in {"save", "play_short_sfx"}}

\* the narration threads that are speaking through the engine
UsingEngine ==
    {i \in 1..Len(threads) :
         /\ threads[i].target = "_tts_worker"
         /\ threads[i].pc = "runAndWait"}

\* C23 (as claimed): at no time does more than one narration thread write
\* or load the shared temporary file, or more than one use the shared
\* engine: a new narration never overlaps the previous one's access
C23_Original ==
    app = "Alexa.py" =>
        /\ Cardinality(UsingFile) <= 1
        /\ Cardinality(UsingEngine) <= 1

\* C24 (as claimed): when a waiter plays the laugh, the narration thread
\* that was started for its punchline has finished
C24_Original ==
    (app = "Alexa.py" /\ last.op = "play_laugh_sfx") =>
        last.narration = "dead"
====
